---------------------------- MODULE Spec2Model ----------------------------
(***************************************************************************)
(* HiddenFileReader: the pattern matchers (filters.py), the tree renderer  *)
(* (tree_generator.py) and the aggregating walk (aggregator.py).           *)
(*                                                                         *)
(* Text is modelled as it is in the program: a str is a sequence of code   *)
(* points, a bytes object a sequence of integers 0..255.  A path is a      *)
(* record [abs, segs]: whether it starts at "/", and its segments.         *)
(***************************************************************************)
EXTENDS Integers, Sequences, FiniteSets, TLC

(***************************************************************************)
(* str helpers                                                             *)
(***************************************************************************)
\* c.lower() for one ASCII code point
LowerChar(c) == IF c >= 65 /\ c <= 90 THEN c + 32 ELSE c

\* s.lower()
Lower(s) == [i \in 1..Len(s) |-> LowerChar(s[i])]

\* s.startswith(p)
StartsWith(s, p) == Len(p) <= Len(s) /\ \A j \in 1..Len(p) : s[j] = p[j]

\* s.endswith(p)
EndsWith(s, p) == Len(p) <= Len(s) /\ \A j \in 1..Len(p) : s[Len(s) - Len(p) + j] = p[j]

\* p in s   (substring / sub-bytes test)
Contains(s, p) ==
    \/ Len(p) = 0
    \/ \E i \in 0..(Len(s) - Len(p)) : s[i + 1] = p[1] /\ \A j \in 2..Len(p) : s[i + j] = p[j]

\* s.count(p) for a p no two occurrences of which can overlap (one character,
\* or two different ones): the positions at which p occurs
Count(s, p) ==
    Cardinality({i \in 0..(Len(s) - Len(p)) : \A j \in 1..Len(p) : s[i + j] = p[j]})

\* the concatenation of parts[lo], ..., parts[hi]
RECURSIVE ConcatRange(_, _, _)
ConcatRange(parts, lo, hi) ==
    IF lo > hi THEN <<>>
    ELSE IF lo = hi THEN parts[lo]
    ELSE LET mid == (lo + hi) \div 2
         IN  ConcatRange(parts, lo, mid) \o ConcatRange(parts, mid + 1, hi)

\* the concatenation of the pieces
Concat(parts) == ConcatRange(parts, 1, Len(parts))

\* sep.join(parts)
RECURSIVE Join(_, _)
Join(sep, parts) ==
    IF Len(parts) = 0 THEN <<>>
    ELSE IF Len(parts) = 1 THEN parts[1]
    ELSE parts[1] \o sep \o Join(sep, Tail(parts))

\* lexicographic order on str, as sorted() compares them
RECURSIVE StrLess(_, _)
StrLess(a, b) ==
    IF Len(a) = 0 THEN Len(b) > 0
    ELSE IF Len(b) = 0 THEN FALSE
    ELSE IF a[1] # b[1] THEN a[1] < b[1]
    ELSE StrLess(Tail(a), Tail(b))

\* sorted(S) for a finite set of str
RECURSIVE Sorted(_)
Sorted(S) ==
    IF S = {} THEN <<>>
    ELSE LET m == CHOOSE x \in S : \A y \in S \ {x} : StrLess(x, y)
         IN  <<m>> \o Sorted(S \ {m})

(***************************************************************************)
(* paths: os.path.join, str(path), Path(path).parts                        *)
(***************************************************************************)
SEP == <<47>>                                                    \* "/"

PathJoin(p, name) == [p EXCEPT !.segs = Append(@, name)]

\* str(path)
PathStr(p) == IF p.abs THEN SEP \o Join(SEP, p.segs) ELSE Join(SEP, p.segs)

\* Path(path).parts: an absolute path's first part is "/"
Parts(p) == IF p.abs THEN <<SEP>> \o p.segs ELSE p.segs

\* Path(name) for a bare file name
BareName(name) == [abs |-> FALSE, segs |-> <<name>>]

(***************************************************************************)
(* filters.py                                                              *)
(***************************************************************************)
\* DEFAULT_EXCLUDE_PATTERNS (lines 10-26)
DEFAULT_EXCLUDE_PATTERNS ==
    { <<47,112,114,111,99>>,                                     \* "/proc"
      <<47,115,121,115>>,                                        \* "/sys"
      <<47,100,101,118>>,                                        \* "/dev"
      <<110,111,100,101,95,109,111,100,117,108,101,115>>,        \* "node_modules"
      <<46,103,105,116>>,                                        \* ".git"
      <<95,95,112,121,99,97,99,104,101,95,95>>,                  \* "__pycache__"
      <<118,101,110,118>>,                                       \* "venv"
      <<46,118,101,110,118>>,                                    \* ".venv"
      <<46,99,97,99,104,101>>,                                   \* ".cache"
      <<98,117,105,108,100>>,                                    \* "build"
      <<100,105,115,116>>,                                       \* "dist"
      <<116,97,114,103,101,116>> }                               \* "target"

\* get_include_patterns: include_dirs (lines 35-81)
include_dirs ==
    { <<100,105,115,116>>,                                       \* "dist"
      <<98,117,105,108,100>>,                                    \* "build"
      <<116,97,114,103,101,116>>,                                \* "target"
      <<111,117,116>>,                                           \* "out"
      <<98,105,110>>,                                            \* "bin"
      <<111,98,106>>,                                            \* "obj"
      <<103,101,110,101,114,97,116,101,100>>,                    \* "generated"
      <<46,110,101,120,116>>,                                    \* ".next"
      <<46,110,117,120,116>>,                                    \* ".nuxt"
      <<46,97,110,103,117,108,97,114>>,                          \* ".angular"
      <<46,101,120,112,111>>,                                    \* ".expo"
      <<108,111,103,115>>,                                       \* "logs"
      <<108,111,103>>,                                           \* "log"
      <<116,101,109,112>>,                                       \* "temp"
      <<116,109,112>>,                                           \* "tmp"
      <<46,116,109,112>>,                                        \* ".tmp"
      <<46,118,115,99,111,100,101>>,                             \* ".vscode"
      <<46,105,100,101,97>>,                                     \* ".idea"
      <<46,118,115>>,                                            \* ".vs"
      <<46,103,105,116>>,                                        \* ".git"
      <<46,115,118,110>>,                                        \* ".svn"
      <<46,104,103>>,                                            \* ".hg"
      <<46,118,101,110,118>>,                                    \* ".venv"
      <<118,101,110,118>>,                                       \* "venv"
      <<101,110,118>>,                                           \* "env"
      <<46,101,110,118>>,                                        \* ".env"
      <<95,95,112,121,99,97,99,104,101,95,95>>,                  \* "__pycache__"
      <<46,103,105,116,104,117,98>>,                             \* ".github"
      <<46,103,105,116,108,97,98>>,                              \* ".gitlab"
      <<46,99,105,114,99,108,101,99,105>>,                       \* ".circleci"
      <<46,100,111,99,107,101,114>>,                             \* ".docker"
      <<100,111,99,107,101,114>>,                                \* "docker"
      <<100,98>>,                                                \* "db"
      <<100,97,116,97,98,97,115,101>>,                           \* "database"
      <<115,113,108,105,116,101>> }                              \* "sqlite"

\* get_include_patterns: include_files (lines 84-137)
include_files ==
    { <<42,46,108,111,103>>,                                     \* "*.log"
      <<42,46,108,111,103,46,42>>,                               \* "*.log.*"
      <<42,46,111,117,116>>,                                     \* "*.out"
      <<46,101,110,118>>,                                        \* ".env"
      <<46,101,110,118,46,42>>,                                  \* ".env.*"
      <<42,46,101,110,118>>,                                     \* "*.env"
      <<42,46,101,110,118,46,42>>,                               \* "*.env.*"
      <<42,46,105,110,105>>,                                     \* "*.ini"
      <<42,46,116,111,109,108>>,                                 \* "*.toml"
      <<42,46,99,111,110,102>>,                                  \* "*.conf"
      <<42,46,116,104,101,109,101>>,                             \* "*.theme"
      <<46,103,105,116,105,103,110,111,114,101>>,                \* ".gitignore"
      <<46,103,105,116,99,111,110,102,105,103>>,                 \* ".gitconfig"
      <<46,101,100,105,116,111,114,99,111,110,102,105,103>>,     \* ".editorconfig"
      <<112,97,99,107,97,103,101,45,108,111,99,107,46,106,115,111,110>>, \* "package-lock.json"
      <<121,97,114,110,46,108,111,99,107>>,                      \* "yarn.lock"
      <<112,110,112,109,45,108,111,99,107,46,121,97,109,108>>,   \* "pnpm-lock.yaml"
      <<99,111,109,112,111,115,101,114,46,108,111,99,107>>,      \* "composer.lock"
      <<112,111,101,116,114,121,46,108,111,99,107>>,             \* "poetry.lock"
      <<67,97,114,103,111,46,108,111,99,107>>,                   \* "Cargo.lock"
      <<42,46,112,121,99>>,                                      \* "*.pyc"
      <<42,46,112,121,111>>,                                     \* "*.pyo"
      <<42,46,112,121,100>>,                                     \* "*.pyd"
      <<42,46,99,108,97,115,115>>,                               \* "*.class"
      <<42,46,111>>,                                             \* "*.o"
      <<42,46,115,111>>,                                         \* "*.so"
      <<42,46,100,108,108>>,                                     \* "*.dll"
      <<42,46,101,120,101>>,                                     \* "*.exe"
      <<42,46,100,121,108,105,98>>,                              \* "*.dylib"
      <<42,46,97>>,                                              \* "*.a"
      <<46,68,83,95,83,116,111,114,101>>,                        \* ".DS_Store"
      <<84,104,117,109,98,115,46,100,98>>,                       \* "Thumbs.db"
      <<100,101,115,107,116,111,112,46,105,110,105>>,            \* "desktop.ini"
      <<42,46,98,97,107>>,                                       \* "*.bak"
      <<42,46,115,119,112>>,                                     \* "*.swp"
      <<42,46,115,119,111>>,                                     \* "*.swo"
      <<99,111,118,101,114,97,103,101,47>>,                      \* "coverage/"
      <<46,99,111,118,101,114,97,103,101>>,                      \* ".coverage"
      <<46,98,97,115,104,114,99>>,                               \* ".bashrc"
      <<46,122,115,104,114,99>>,                                 \* ".zshrc"
      <<46,112,114,111,102,105,108,101>>,                        \* ".profile"
      <<46,118,105,109,114,99>>,                                 \* ".vimrc"
      <<46,101,115,108,105,110,116,114,99>>,                     \* ".eslintrc"
      <<46,112,114,101,116,116,105,101,114,114,99>> }            \* ".prettierrc"

\* a version of should_exclude_path that compares the whole path with each
\* pattern, where the code searches the path for it
should_exclude_path_whole(path, exclude_patterns) == PathStr(path) \in exclude_patterns

\* should_exclude_path(path, exclude_patterns)
should_exclude_path(path, exclude_patterns) ==
    LET path_str == PathStr(path)
        parts == Parts(path)
    IN  \E pattern \in exclude_patterns :
            \/ Contains(path_str, pattern)
            \/ \E i \in 1..Len(parts) : parts[i] = pattern

\* should_include_path(path, include_dirs)
should_include_path(path, dirs) ==
    LET path_parts == Parts(path)
    IN  \E i \in 1..Len(path_parts) : Lower(path_parts[i]) \in dirs

\* a version of should_include_file with the exact-match rule only
should_include_file_exact(filename, patterns) ==
    \E pattern \in patterns : Lower(filename) = Lower(pattern)

\* should_include_file(filename, include_files)
should_include_file(filename, patterns) ==
    LET filename_lower == Lower(filename)
    IN  \E pattern \in patterns :
            \/ filename_lower = Lower(pattern)
            \/ /\ StartsWith(pattern, <<42, 46>>)
               /\ EndsWith(filename_lower, Lower(Tail(pattern)))
            \/ /\ EndsWith(pattern, SEP)
               /\ StartsWith(filename_lower, Lower(SubSeq(pattern, 1, Len(pattern) - 1)))

\* a version of is_hidden_file_or_dir that looks at the last part only
is_hidden_name_only(path) == StartsWith(Parts(path)[Len(Parts(path))], <<46>>)

\* is_hidden_file_or_dir(path)
is_hidden_file_or_dir(path) ==
    LET parts == Parts(path)
    IN  \E i \in 1..Len(parts) : StartsWith(parts[i], <<46>>)

(***************************************************************************)
(* constants.py                                                            *)
(***************************************************************************)
MAX_FILE_SIZE == 104857600

(***************************************************************************)
(* file content: bytes on disk, str once read                              *)
(***************************************************************************)
\* the size of the sample is_binary_file reads
SAMPLE_SIZE == 1024

Min(a, b) == IF a < b THEN a ELSE b

\* f.read(1024) on a file opened "rb"
ReadChunk(bytes) == SubSeq(bytes, 1, Min(Len(bytes), SAMPLE_SIZE))

\* bytes 0x80..0xBF continue a UTF-8 sequence
IsCont(b) == b >= 128 /\ b <= 191

\* bytes.decode("utf-8", errors="ignore") for sequences of up to three bytes.
\* A byte below 0x80 is itself; a lead byte followed by its continuation bytes
\* is their code point; any other byte (a continuation byte, consumed or stray,
\* or a lead byte without its continuation) yields nothing.
Utf8Decode(b) ==
    LET cp2(i) == (b[i] - 192) * 64 + (b[i + 1] - 128)
        cp3(i) == (b[i] - 224) * 4096 + (b[i + 1] - 128) * 64 + (b[i + 2] - 128)
        Emit(i) ==
            IF b[i] < 128 THEN <<b[i]>>
            ELSE IF b[i] >= 194 /\ b[i] <= 223 /\ i + 1 <= Len(b) /\ IsCont(b[i + 1])
                 THEN <<cp2(i)>>
            ELSE IF /\ b[i] >= 224 /\ b[i] <= 239 /\ i + 2 <= Len(b)
                    /\ IsCont(b[i + 1]) /\ IsCont(b[i + 2])
                    /\ cp3(i) >= 2048 /\ (cp3(i) < 55296 \/ cp3(i) > 57343)
                 THEN <<cp3(i)>>
            ELSE <<>>
    IN  Concat([i \in 1..Len(b) |-> Emit(i)])

\* universal newlines of a file opened "r": "\r\n" and "\r" are read as "\n"
TranslateNewlines(s) ==
    LET Emit(i) ==
            IF s[i] = 13 THEN <<10>>
            ELSE IF s[i] = 10 /\ i > 1 /\ s[i - 1] = 13 THEN <<>>
            ELSE <<s[i]>>
    IN  Concat([i \in 1..Len(s) |-> Emit(i)])

\* open(path, "r", encoding="utf-8", errors="ignore").read()
ReadText(bytes) == TranslateNewlines(Utf8Decode(bytes))

\* sum(1 for _ in f): the lines a text file iterates over
LineCount(text) ==
    Count(text, <<10>>) + (IF Len(text) > 0 /\ text[Len(text)] # 10 THEN 1 ELSE 0)

\* str.encode("utf-8") for code points below 0x10000
Utf8Encode(s) ==
    LET Emit(i) ==
            IF s[i] < 128 THEN <<s[i]>>
            ELSE IF s[i] < 2048 THEN <<192 + (s[i] \div 64), 128 + (s[i] % 64)>>
            ELSE <<224 + (s[i] \div 4096), 128 + ((s[i] \div 64) % 64), 128 + (s[i] % 64)>>
    IN  Concat([i \in 1..Len(s) |-> Emit(i)])

(***************************************************************************)
(* aggregator.py: is_binary_file                                           *)
(***************************************************************************)
\* the bytes the test at line 23 looks for: a backslash, "x", "0", "0"
NUL_LITERAL == <<92, 120, 48, 48>>

\* text_chars (line 26)
text_chars == {7, 8, 9, 10, 12, 13, 27} \cup ((32..255) \ {127})

printable_count(chunk) == Cardinality({i \in 1..Len(chunk) : chunk[i] \in text_chars})

\* the body of the try block of is_binary_file, on the chunk read
is_binary_chunk(chunk) ==
    IF Contains(chunk, NUL_LITERAL) THEN TRUE
    ELSE IF Len(chunk) = 0 THEN FALSE
    ELSE 10 * printable_count(chunk) < 7 * Len(chunk)

\* is_binary_file(file_path): a file that cannot be opened is treated as binary
is_binary_file(f) ==
    IF f.fault \in {"perm", "gone"} THEN TRUE
    ELSE is_binary_chunk(ReadChunk(f.bytes))

(***************************************************************************)
(* bounds of the model                                                     *)
(***************************************************************************)
\* files in the scanned tree when the first scan starts
MaxFiles == 2

\* bytes of a file handed to is_binary_file on its own
MaxChunk == 4

\* characters of a file name handed to should_include_file on its own
MaxName == 4

\* scans run one after the other on the same root
MaxRuns == 2

\* the small --max-size value tried beside the default
SmallLimit == 3

(***************************************************************************)
(* state                                                                   *)
(***************************************************************************)
VARIABLES
    fs,              \* the files below the root: records [rel, bytes, fault]
    root_is_dir,     \* os.path.isdir(project_path)
    args,            \* the arguments of aggregate_hidden_files
    pc,              \* where the scan is: "idle", "walk", "done", "raised"
    content_lines,   \* aggregator.py:51
    file_contents,   \* aggregator.py:72, a dict: a sequence of [key, value] in insertion order
    file_count,      \* aggregator.py:69
    total_size,      \* aggregator.py:70
    total_lines,     \* aggregator.py:71
    stack,           \* os.walk: the directories still to visit, innermost level first
    cur,             \* os.walk: the directory being visited (root of the current triple)
    files,           \* os.walk: the files of cur the loop at line 90 has not reached yet
    visited,         \* the directories os.walk yielded in this scan
    log,             \* what the loop body did with each file of this scan
    runs,            \* what each finished scan reported: its counters, and what it did with each file
    result,          \* what the last finished scan returned
    outside,         \* the files written outside the scanned root: records [path, bytes]
    call,            \* a call of should_include_file on its own: [filename, patterns, returned]
    denied,          \* the directories below the root that the user cannot list
    open_btn,        \* gui.py:74: the state of the "Open Output Folder" button
    self_output_path,\* gui.py:24: self.output_path, NONE or a path as text
    gui,             \* where the click handler of the Run button is: "ready", "running"
    invocations      \* the clicks on Run so far: what each was given and how it ended

\* the state of the window
gui_vars == <<open_btn, self_output_path, gui, invocations>>

vars == <<fs, root_is_dir, args, pc, content_lines, file_contents, file_count, total_size,
          total_lines, stack, cur, files, visited, log, runs, result, outside, call, denied,
          open_btn, self_output_path, gui, invocations>>

\* None
NONE == <<>>

(***************************************************************************)
(* the file system below the root                                          *)
(***************************************************************************)
IsPrefix(d, rel) == Len(d) <= Len(rel) /\ SubSeq(rel, 1, Len(d)) = d

\* the files directly in directory d (d relative to the root)
FilesIn(d) == {f \in fs : Len(f.rel) = Len(d) + 1 /\ IsPrefix(d, f.rel)}

FileNamesIn(d) == {f.rel[Len(d) + 1] : f \in FilesIn(d)}

\* the names of the directories directly in d
DirNamesIn(d) ==
    {f.rel[Len(d) + 1] : f \in {g \in fs : Len(g.rel) > Len(d) + 1 /\ IsPrefix(d, g.rel)}}

\* os.path.join(project_path, rel)
Full(rel) == [abs |-> TRUE, segs |-> args.project_path.segs \o rel]

\* os.path.relpath(file_path, project_path), as text
RelStr(rel) == Join(SEP, rel)

(***************************************************************************)
(* tree_generator.py                                                       *)
(***************************************************************************)
BRANCH == <<9500, 9472, 9472, 32>>                               \* U+251C U+2500 U+2500 space
LAST_BRANCH == <<9492, 9472, 9472, 32>>                         \* U+2514 U+2500 U+2500 space
BAR_PREFIX == <<9474, 32, 32, 32>>                               \* U+2502 and three spaces
BLANK_PREFIX == <<32, 32, 32, 32>>                               \* four spaces

\* "[Permission Denied]" (line 59)
PERMISSION_DENIED ==
    <<91, 80, 101, 114, 109, 105, 115, 115, 105, 111, 110, 32, 68, 101, 110, 105, 101, 100, 93>>

\* the directories add_directory_content keeps (lines 34-39)
tree_keeps_dir(current_path, dirname) ==
    \/ should_include_path(PathJoin(Full(current_path), dirname), include_dirs)
    \/ is_hidden_file_or_dir(PathJoin(Full(current_path), dirname))

\* the files add_directory_content keeps (lines 42-46)
tree_keeps_file(filename) ==
    \/ should_include_file(filename, include_files)
    \/ is_hidden_file_or_dir(BareName(filename))

\* the directories add_directory_content lists, from current_path down (the
\* recursion of line 40 over included_dirs; os.listdir at line 21 raises
\* PermissionError for a directory the user cannot list)
RECURSIVE tree_dirs(_)
tree_dirs(current_path) ==
    IF current_path \in denied THEN {}
    ELSE {current_path}
         \cup UNION {tree_dirs(Append(current_path, dirname)) :
                       dirname \in {n \in DirNamesIn(current_path) :
                                       tree_keeps_dir(current_path, n)}}

\* the files the tree lists (lines 42-57), by path relative to the root
tree_files ==
    {f.rel : f \in {g \in fs : /\ SubSeq(g.rel, 1, Len(g.rel) - 1) \in tree_dirs(<<>>)
                                /\ tree_keeps_file(g.rel[Len(g.rel)])}}

\* add_directory_content(current_path, prefix): the lines it appends
RECURSIVE add_directory_content(_, _)
add_directory_content(current_path, prefix) ==
    IF current_path \in denied
    THEN \* lines 58-59: except PermissionError
         <<prefix \o BRANCH \o PERMISSION_DENIED>>
    ELSE
    LET included_dirs ==
            SelectSeq(Sorted(DirNamesIn(current_path)),
                      LAMBDA dirname : tree_keeps_dir(current_path, dirname))
        included_files ==
            SelectSeq(Sorted(FileNamesIn(current_path)),
                      LAMBDA filename : tree_keeps_file(filename))
        is_last_dir(i) == i = Len(included_dirs) /\ Len(included_files) = 0
        DirLines[i \in 0..Len(included_dirs)] ==
            IF i = 0 THEN <<>>
            ELSE DirLines[i - 1]
                 \o <<prefix \o (IF is_last_dir(i) THEN LAST_BRANCH ELSE BRANCH)
                      \o included_dirs[i] \o SEP>>
                 \o add_directory_content(
                        Append(current_path, included_dirs[i]),
                        prefix \o (IF is_last_dir(i) THEN BLANK_PREFIX ELSE BAR_PREFIX))
        FileLines ==
            [i \in 1..Len(included_files) |->
                prefix \o (IF i = Len(included_files) THEN LAST_BRANCH ELSE BRANCH)
                \o included_files[i]]
    IN  DirLines[Len(included_dirs)] \o FileLines

\* os.path.basename(project_path.rstrip(os.sep)): empty for the root "/"
project_name ==
    IF args.project_path.segs = <<>> THEN <<>>
    ELSE args.project_path.segs[Len(args.project_path.segs)]

\* generate_hidden_directory_tree(project_path, include_dirs, include_files): its lines
tree_lines == <<project_name \o SEP>> \o add_directory_content(<<>>, <<>>)

\* the string generate_hidden_directory_tree returns
generate_hidden_directory_tree == Join(<<10>>, tree_lines)

(***************************************************************************)
(* output_formats.py                                                       *)
(***************************************************************************)
HexDigit(n) == IF n < 10 THEN 48 + n ELSE 87 + n

\* json's escape of one character of a string, with ensure_ascii=False
JsonEscapeChar(c) ==
    IF c = 34 THEN <<92, 34>>
    ELSE IF c = 92 THEN <<92, 92>>
    ELSE IF c = 10 THEN <<92, 110>>
    ELSE IF c = 13 THEN <<92, 114>>
    ELSE IF c = 9 THEN <<92, 116>>
    ELSE IF c = 8 THEN <<92, 98>>
    ELSE IF c = 12 THEN <<92, 102>>
    ELSE IF c < 32 THEN <<92, 117, 48, 48, HexDigit(c \div 16), HexDigit(c % 16)>>
    ELSE <<c>>

JsonEscape(s) == Concat([i \in 1..Len(s) |-> JsonEscapeChar(s[i])])

JsonString(s) == <<34>> \o JsonEscape(s) \o <<34>>

\* json.dump(file_contents, f, indent=2, ensure_ascii=False): the text written
json_dump(d) ==
    IF Len(d) = 0 THEN <<123, 125>>
    ELSE <<123, 10>>
         \o Join(<<44, 10>>,
                 [i \in 1..Len(d) |->
                     <<32, 32>> \o JsonString(d[i].key) \o <<58, 32>> \o JsonString(d[i].value)])
         \o <<10, 125>>

\* write_json_output: the bytes of the file it writes
write_json_output(d) == Utf8Encode(json_dump(d))

\* write_markdown_output, and the txt branch of aggregate_hidden_files: the
\* bytes of the file written
write_markdown_output(lines) == Utf8Encode(Join(<<10>>, lines))

\* write_sqlite_output: the file is sqlite3's, not this program's; of its
\* bytes the model keeps the 100-byte database header: the magic string
\* "SQLite format 3", a NUL, and binary fields, here zero bytes
write_sqlite_output(d) ==
    [i \in 1..100 |->
        IF i <= 15
        THEN <<83, 81, 76, 105, 116, 101, 32, 102, 111, 114, 109, 97, 116, 32, 51>>[i]
        ELSE 0]

\* the extension of the artifact of each format (aggregator.py:179-188)
Extension(output_format) ==
    IF output_format = "json" THEN <<46, 106, 115, 111, 110>>            \* ".json"
    ELSE IF output_format = "sqlite" THEN <<46, 100, 98>>                \* ".db"
    ELSE IF output_format = "md" THEN <<46, 109, 100>>                   \* ".md"
    ELSE <<46, 116, 120, 116>>                                           \* ".txt"

\* str.replace(old, new): every occurrence of old, left to right
RECURSIVE Replace(_, _, _)
Replace(s, old, new) ==
    IF Len(s) < Len(old) THEN s
    ELSE IF SubSeq(s, 1, Len(old)) = old
         THEN new \o Replace(SubSeq(s, Len(old) + 1, Len(s)), old, new)
         ELSE <<s[1]>> \o Replace(Tail(s), old, new)

\* base_output_path + extension, relative to the root
output_name(output_format) ==
    <<104, 105, 100, 100, 101, 110, 95, 100, 117, 109, 112>> \o Extension(output_format)

(***************************************************************************)
(* aggregator.py: aggregate_hidden_files                                   *)
(***************************************************************************)
RULE == <<35, 32>> \o [i \in 1..50 |-> 61]                       \* "# " + "=" * 50
FENCE == <<96, 96, 96>>                                          \* "```"
SECTION == <<35, 35, 35, 32>>                                    \* "### "
ERROR_PREFIX ==                                                  \* "# Error reading file: "
    <<35, 32, 69, 114, 114, 111, 114, 32, 114, 101, 97, 100, 105, 110, 103, 32,
      102, 105, 108, 101, 58, 32>>

\* str(e) of the FileNotFoundError open() and os.path.getsize() raise
ErrorText(file_path) ==
    <<91, 69, 114, 114, 110, 111, 32, 50, 93, 32, 78, 111, 32, 115, 117, 99, 104, 32,
      102, 105, 108, 101, 32, 111, 114, 32, 100, 105, 114, 101, 99, 116, 111, 114, 121,
      58, 32, 39>> \o PathStr(file_path) \o <<39>>

\* the fixed config-pattern set of the filter gate (line 100)
config_patterns ==
    { <<46,101,110,118>>,                                        \* ".env"
      <<46,101,110,118,46,42>>,                                  \* ".env.*"
      <<42,46,101,110,118>>,                                     \* "*.env"
      <<42,46,101,110,118,46,42>>,                               \* "*.env.*"
      <<42,46,105,110,105>>,                                     \* "*.ini"
      <<42,46,116,111,109,108>>,                                 \* "*.toml"
      <<42,46,121,97,109,108>>,                                  \* "*.yaml"
      <<42,46,121,109,108>>,                                     \* "*.yml"
      <<42,46,106,115,111,110>>,                                 \* "*.json"
      <<42,46,120,109,108>> }                                    \* "*.xml"

\* lines 51-67: content_lines before the walk
initial_content_lines ==
    << RULE,
       <<35, 32, 80, 97, 116, 104, 58, 32>> \o PathStr(args.project_path),
       <<35, 32, 72, 105, 100, 100, 101, 110, 32, 70, 105, 108, 101, 32, 65, 110, 97,
         108, 121, 115, 105, 115>>,
       RULE,
       <<>>,
       <<35, 35, 32, 68, 73, 82, 69, 67, 84, 79, 82, 89, 32, 83, 84, 82, 85, 67, 84, 85,
         82, 69>>,
       FENCE,
       generate_hidden_directory_tree,
       FENCE,
       <<>>,
       <<35, 35, 32, 70, 73, 76, 69, 32, 67, 79, 78, 84, 69, 78, 84, 83>>,
       <<>> >>

\* a root check that lets every path through
root_check_skipped == FALSE

\* line 37: not os.path.isdir(project_path)
not_a_directory == ~root_is_dir

\* lines 33-72: the root check and the set-up of a scan
aggregate_hidden_files ==
    /\ IF not_a_directory
       THEN /\ pc' = "done"
            /\ result' = FALSE
            /\ runs' = Append(runs, [ok |-> FALSE, file_count |-> 0, total_size |-> 0,
                                       total_lines |-> 0, decisions |-> {}])
            /\ UNCHANGED <<content_lines, file_contents, file_count, total_size,
                           total_lines, stack, cur, files, visited, log>>
       ELSE /\ pc' = "walk"
            /\ content_lines' = initial_content_lines
            /\ file_contents' = <<>>
            /\ file_count' = 0
            /\ total_size' = 0
            /\ total_lines' = 0
            /\ stack' = << {<<>>} >>
            /\ cur' = <<>>
            /\ files' = {}
            /\ visited' = {}
            /\ log' = {}
            /\ UNCHANGED <<runs, result>>
    /\ UNCHANGED <<fs, root_is_dir, outside, call, denied>>

\* cli.py:57, gui.py:137: the scan the program runs
StartScan == pc = "idle" /\ aggregate_hidden_files /\ UNCHANGED <<args, gui_vars>>

\* the program is run again on the same root with the same arguments
Rescan ==
    pc = "done" /\ Len(runs) < MaxRuns /\ aggregate_hidden_files /\ UNCHANGED <<args, gui_vars>>

\* after a dry run, the program is run on the same root with the same
\* arguments but dry_run (cli.py:19 --dry-run, gui.py:101 dry_run_var)
ScanNormally ==
    /\ pc = "done"
    /\ args.dry_run
    /\ Len(runs) < MaxRuns
    /\ args' = [args EXCEPT !.dry_run = FALSE]
    /\ aggregate_hidden_files
    /\ UNCHANGED gui_vars

\* a version of walk_keeps_dir without the exclude filter of lines 76-80
walk_keeps_dir_no_exclude(root, d) ==
    \/ should_include_path(PathJoin(Full(root), d), include_dirs)
    \/ is_hidden_file_or_dir(PathJoin(Full(root), d))

\* lines 76-88: the subdirectories of root the walk keeps in dirs
walk_keeps_dir(root, d) ==
    /\ ~should_exclude_path(PathJoin(Full(root), d), args.exclude_patterns)
    /\ \/ should_include_path(PathJoin(Full(root), d), include_dirs)
       \/ is_hidden_file_or_dir(PathJoin(Full(root), d))

\* line 74 and lines 76-88: os.walk yields the next directory, top down, and the
\* loop body prunes its dirs in place.  A directory that cannot be listed is
\* passed over: os.walk, called without onerror, yields nothing for it.
VisitDir ==
    /\ pc = "walk"
    /\ files = {}
    /\ stack # <<>>
    /\ \E d \in Head(stack) :
          LET kept == {Append(d, n) : n \in {m \in DirNamesIn(d) : walk_keeps_dir(d, m)}}
              rest == Head(stack) \ {d}
              below == IF rest = {} THEN Tail(stack) ELSE <<rest>> \o Tail(stack)
          IN  IF d \in denied
              THEN /\ stack' = below
                   /\ UNCHANGED <<cur, files, visited>>
              ELSE /\ stack' = IF kept = {} THEN below ELSE <<kept>> \o below
                   /\ cur' = d
                   /\ files' = FilesIn(d)
                   /\ visited' = visited \cup {d}
    /\ UNCHANGED <<fs, root_is_dir, args, pc, content_lines, file_contents, file_count, total_size,
                   total_lines, log, runs, result, outside, call, denied, gui_vars>>

\* a version of early_gate that applies the filter mode before the exclude
\* patterns
early_gate_filter_first(f) ==
    LET file_path == Full(f.rel)
        file == f.rel[Len(f.rel)]
    IN  IF args.file_filter = "dotfiles" /\ ~is_hidden_file_or_dir(file_path) THEN "filtered"
        ELSE IF args.file_filter = "config" /\ ~should_include_file(file, config_patterns)
             THEN "filtered"
        ELSE IF should_exclude_path(file_path, args.exclude_patterns) THEN "excluded"
        ELSE IF ~(should_include_file(file, include_files) \/ is_hidden_file_or_dir(file_path))
             THEN "irrelevant"
        ELSE "pass"

\* lines 94-110: the gates before the try block; what rejects the file, or "pass"
early_gate(f) ==
    LET file_path == Full(f.rel)
        file == f.rel[Len(f.rel)]
        is_dotfile == is_hidden_file_or_dir(file_path)
        is_config_file == should_include_file(file, config_patterns)
    IN  IF should_exclude_path(file_path, args.exclude_patterns) THEN "excluded"
        ELSE IF args.file_filter = "dotfiles" /\ ~is_dotfile THEN "filtered"
        ELSE IF args.file_filter = "config" /\ ~is_config_file THEN "filtered"
        ELSE IF ~(should_include_file(file, include_files) \/ is_hidden_file_or_dir(file_path))
             THEN "irrelevant"
        ELSE "pass"

\* a size gate that also rejects a file of exactly the maximum size
too_large_ge(file_size, max_file_size) == file_size >= max_file_size

\* line 114: the size gate
too_large(file_size, max_file_size) == file_size > max_file_size

\* lines 112-166: what the try block does with a file that passed the gates
\* above: "error" (an exception reached the handler at line 157),
\* "too_large", "binary", "counted" (dry run) or "recorded"
try_outcome(f) ==
    IF f.fault = "gone" THEN "error"
    ELSE IF too_large(Len(f.bytes), args.max_file_size) THEN "too_large"
    ELSE IF is_binary_file(f) THEN "binary"
    ELSE IF f.fault = "late" THEN "error"
    ELSE IF args.dry_run THEN "counted"
    ELSE "recorded"

decision(f) ==
    LET gate == early_gate(f) IN IF gate = "pass" THEN try_outcome(f) ELSE gate

is_text_format == args.output_format \in {"txt", "md"}

\* lines 147-151: the section of a file read
content_section(rel_path, file_content) ==
    << SECTION \o rel_path, FENCE, file_content, FENCE, <<>> >>

\* lines 160-164: the section of a file whose reading raised
error_section(rel_path, message) ==
    << SECTION \o rel_path,
       FENCE \o <<10>> \o ERROR_PREFIX \o message \o <<10>> \o FENCE,
       <<>> >>

\* lines 90-166: one iteration of the loop over the files of the directory
ProcessFile ==
    /\ pc = "walk"
    /\ \E f \in files :
          LET rel_path == RelStr(f.rel)
              file_size == Len(f.bytes)
              file_content == ReadText(f.bytes)
              what == decision(f)
              \* in a dry run the counters at lines 131-132 are updated before the
              \* open at line 133 can raise
              counted_before_open ==
                  /\ args.dry_run /\ what = "error" /\ f.fault = "late"
          IN  /\ files' = files \ {f}
              /\ log' = log \cup {[rel |-> f.rel, what |-> what]}
              /\ file_count' =
                    IF what \in {"counted", "recorded"} \/ counted_before_open
                    THEN file_count + 1 ELSE file_count
              /\ total_size' =
                    IF what = "counted" \/ counted_before_open THEN total_size + file_size
                    ELSE IF what = "recorded" THEN total_size + Len(file_content)
                    ELSE total_size
              /\ total_lines' =
                    IF what = "counted" THEN total_lines + LineCount(file_content)
                    ELSE IF what = "recorded"
                         THEN total_lines + Count(file_content, <<92, 110>>) + 1
                    ELSE total_lines
              /\ file_contents' =
                    IF what = "recorded"
                    THEN Append(file_contents, [key |-> rel_path, value |-> file_content])
                    ELSE IF what = "error" /\ ~args.dry_run /\ ~is_text_format
                         THEN Append(file_contents,
                                     [key |-> rel_path,
                                      value |-> ERROR_PREFIX \o ErrorText(Full(f.rel))])
                    ELSE file_contents
              /\ content_lines' =
                    IF what = "recorded" /\ is_text_format
                    THEN content_lines \o content_section(rel_path, file_content)
                    ELSE IF what = "error" /\ ~args.dry_run /\ is_text_format
                         THEN content_lines \o error_section(rel_path, ErrorText(Full(f.rel)))
                    ELSE content_lines
    /\ UNCHANGED <<fs, root_is_dir, args, pc, stack, cur, visited, runs, result, outside, call,
                   denied, gui_vars>>

\* the bytes of the artifact of the selected format (lines 181-191)
artifact_bytes ==
    IF args.output_format = "json" THEN write_json_output(file_contents)
    ELSE IF args.output_format = "sqlite" THEN write_sqlite_output(file_contents)
    ELSE write_markdown_output(content_lines)

\* line 179: os.path.join(project_path, "hidden_dump")
base_output_path ==
    PathStr(PathJoin(args.project_path,
                     <<104, 105, 100, 100, 101, 110, 95, 100, 117, 109, 112>>))

\* the path the artifact is written to: lines 181-188, and the
\* output_path.replace(".txt", <extension>) of output_formats.py:14, 22, 30
output_path ==
    IF args.output_format = "txt" THEN base_output_path \o Extension("txt")
    ELSE Replace(base_output_path \o Extension(args.output_format),
                 Extension("txt"), Extension(args.output_format))

\* lines 168-202: the walk is over; the summary of a dry run, or the artifact
\* written.  opened: whether the artifact could be opened for writing (the
\* directory of output_path exists and is writable); if not, the exception of
\* open or sqlite3.connect leaves aggregate_hidden_files, which has no handler
\* for it.
Finish ==
    /\ pc = "walk"
    /\ files = {}
    /\ stack = <<>>
    /\ \E opened \in BOOLEAN :
          IF args.dry_run
          THEN /\ opened
               /\ pc' = "done"
               /\ result' = TRUE
               /\ runs' = Append(runs, [ok |-> TRUE, file_count |-> file_count,
                                        total_size |-> total_size, total_lines |-> total_lines,
                                        decisions |-> log])
               /\ UNCHANGED <<fs, outside>>
          ELSE IF ~opened
          THEN /\ pc' = "raised"
               /\ UNCHANGED <<fs, outside, result, runs>>
          ELSE /\ IF output_path = PathStr(Full(<<output_name(args.output_format)>>))
                  THEN /\ fs' = {f \in fs : f.rel # <<output_name(args.output_format)>>}
                                \cup {[rel |-> <<output_name(args.output_format)>>,
                                       bytes |-> artifact_bytes,
                                       fault |-> "none"]}
                       /\ UNCHANGED outside
                  ELSE /\ outside' = {o \in outside : o.path # output_path}
                                     \cup {[path |-> output_path, bytes |-> artifact_bytes]}
                       /\ UNCHANGED fs
               /\ pc' = "done"
               /\ result' = TRUE
               /\ runs' = Append(runs, [ok |-> TRUE, file_count |-> file_count,
                                        total_size |-> total_size, total_lines |-> total_lines,
                                        decisions |-> log])
    /\ UNCHANGED <<root_is_dir, args, content_lines, file_contents, file_count, total_size,
                   total_lines, stack, cur, files, visited, log, call, denied, gui_vars>>

(***************************************************************************)
(* the inputs of the model                                                 *)
(***************************************************************************)
File(rel, bytes, fault) == [rel |-> rel, bytes |-> bytes, fault |-> fault]

\* no call of should_include_file on its own is under way
NoCall == [filename |-> <<>>, patterns |-> {}, returned |-> FALSE]

\* The files a tree is drawn from.  fault: "none"; "perm" (the file cannot be
\* opened); "gone" (the file disappears after os.walk listed it); "late" (it
\* disappears after is_binary_file sampled it).
Universe ==
    { \* .env = "A=1"
      File(<< <<46,101,110,118>> >>, <<65,61,49>>, "none"),
      \* README.md = "hi!\n"
      File(<< <<82,69,65,68,77,69,46,109,100>> >>, <<104,105,33,10>>, "none"),
      \* .gitignore = "*.log\n"
      File(<< <<46,103,105,116,105,103,110,111,114,101>> >>, <<42,46,108,111,103,10>>, "none"),
      \* node_modules/pkg/.secret = "s3"
      File(<< <<110,111,100,101,95,109,111,100,117,108,101,115>>, <<112,107,103>>,
              <<46,115,101,99,114,101,116>> >>, <<115,51>>, "none"),
      \* src/.env = "B=2"
      File(<< <<115,114,99>>, <<46,101,110,118>> >>, <<66,61,50>>, "none"),
      \* .vscode/settings.txt = "x\r\ny"
      File(<< <<46,118,115,99,111,100,101>>, <<115,101,116,116,105,110,103,115,46,116,120,116>> >>,
           <<120,13,10,121>>, "none"),
      \* Logs/App.LOG = "ok", NUL, "ok"
      File(<< <<76,111,103,115>>, <<65,112,112,46,76,79,71>> >>, <<111,107,0,111,107>>, "none"),
      \* .gone = "zz", gone before its size is taken
      File(<< <<46,103,111,110,101>> >>, <<122,122>>, "gone"),
      \* .late = "zz", gone before it is read
      File(<< <<46,108,97,116,101>> >>, <<122,122>>, "late"),
      \* .locked = "zzzz", not readable
      File(<< <<46,108,111,99,107,101,100>> >>, <<122,122,122,122>>, "perm") }

Trees == {S \in SUBSET Universe : Cardinality(S) <= MaxFiles}

\* the scan roots: /p, /.d and /q.txt
Roots == { [abs |-> TRUE, segs |-> << <<112>> >>],
           [abs |-> TRUE, segs |-> << <<46,100>> >>],
           [abs |-> TRUE, segs |-> << <<113,46,116,120,116>> >>] }

\* cli.py:30-32: the default exclude set, which --exclude extends
ExcludeSets == {DEFAULT_EXCLUDE_PATTERNS}

\* In a dry run the output format is never read (lines 146, 159 and 181 are
\* not reached), so a dry run is drawn with the default format only.
Args ==
  { a \in
    [ project_path : Roots,
      exclude_patterns : ExcludeSets,
      dry_run : BOOLEAN,
      output_format : {"txt", "md", "json", "sqlite"},
      max_file_size : {MAX_FILE_SIZE, SmallLimit},
      file_filter : {"all", "dotfiles", "config"} ] :
    a.dry_run => a.output_format = "txt" }

\* at most one directory directly in the root cannot be listed
Denials == {{}} \cup {{<<n>>} : n \in DirNamesIn(<<>>)}

Init ==
    /\ args \in Args
    /\ root_is_dir \in BOOLEAN
    /\ fs \in (IF root_is_dir THEN Trees ELSE {{}})
    /\ pc = "idle"
    /\ content_lines = <<>>
    /\ file_contents = <<>>
    /\ file_count = 0
    /\ total_size = 0
    /\ total_lines = 0
    /\ stack = <<>>
    /\ cur = <<>>
    /\ files = {}
    /\ visited = {}
    /\ log = {}
    /\ runs = <<>>
    /\ result = FALSE
    /\ outside = {}
    /\ call = NoCall
    /\ denied \in Denials
    /\ open_btn = "disabled"
    /\ self_output_path = NONE
    /\ gui = "ready"
    /\ invocations = <<>>

Next == StartScan \/ VisitDir \/ ProcessFile \/ Finish

Spec == Init /\ [][Next]_vars

\* scans one after the other
NextRerun == Next \/ Rescan

SpecRerun == Init /\ [][NextRerun]_vars

\* a dry run, then a normal run
NextDryThenNormal == Next \/ ScanNormally

SpecDryThenNormal == Init /\ [][NextDryThenNormal]_vars

(***************************************************************************)
(* is_binary_file on its own: one file, classified once                    *)
(***************************************************************************)
\* the bytes the files are made of: NUL, a control byte outside text_chars,
\* the control byte BEL, and the printable characters "0", backslash and "x"
SampleBytes == {0, 1, 7, 48, 92, 120}

\* the byte strings of at most MaxChunk bytes
RECURSIVE Chunks(_)
Chunks(n) ==
    IF n = 0 THEN {<<>>}
    ELSE Chunks(n - 1)
         \cup {Append(c, b) : c \in {x \in Chunks(n - 1) : Len(x) = n - 1}, b \in SampleBytes}

\* the root holds one file "f", readable or not
InitBinary ==
    /\ args = [project_path |-> [abs |-> TRUE, segs |-> << <<112>> >>],
               exclude_patterns |-> DEFAULT_EXCLUDE_PATTERNS,
               dry_run |-> FALSE,
               output_format |-> "txt",
               max_file_size |-> MAX_FILE_SIZE,
               file_filter |-> "all"]
    /\ root_is_dir = TRUE
    /\ fs \in {{File(<< <<102>> >>, bytes, fault)} : bytes \in Chunks(MaxChunk),
                                                    fault \in {"none", "perm"}}
    /\ pc = "classify"
    /\ content_lines = <<>>
    /\ file_contents = <<>>
    /\ file_count = 0
    /\ total_size = 0
    /\ total_lines = 0
    /\ stack = <<>>
    /\ cur = <<>>
    /\ files = fs
    /\ visited = {}
    /\ log = {}
    /\ runs = <<>>
    /\ result = FALSE
    /\ outside = {}
    /\ call = NoCall
    /\ denied = {}
    /\ open_btn = "disabled"
    /\ self_output_path = NONE
    /\ gui = "ready"
    /\ invocations = <<>>

\* line 123: is_binary_file(file_path) is called and returns
ClassifyFile ==
    /\ pc = "classify"
    /\ \E f \in files :
          /\ files' = files \ {f}
          /\ log' = log \cup {[rel |-> f.rel,
                                what |-> IF is_binary_file(f) THEN "binary" ELSE "text"]}
    /\ pc' = "done"
    /\ UNCHANGED <<fs, root_is_dir, args, content_lines, file_contents, file_count, total_size,
                   total_lines, stack, cur, visited, runs, result, outside, call, denied,
                   gui_vars>>

NextBinary == ClassifyFile

SpecBinary == InitBinary /\ [][NextBinary]_vars

(***************************************************************************)
(* should_include_file on its own: one file name, one pattern set          *)
(***************************************************************************)
\* the characters the file names are made of: "a", "A", "b", "." and "*"
NameChars == {97, 65, 98, 46, 42}

\* the file names of at most MaxName characters
RECURSIVE Names(_)
Names(n) ==
    IF n = 0 THEN {<<>>}
    ELSE Names(n - 1)
         \cup {Append(c, b) : c \in {x \in Names(n - 1) : Len(x) = n - 1}, b \in NameChars}

\* the patterns the sets are made of
PatternChoices ==
    { <<65, 46, 98>>,            \* "A.b"
      <<42, 46, 66>>,            \* "*.B"
      <<97, 47>>,                \* "a/"
      <<42, 46, 97, 46, 42>>,    \* "*.a.*"
      <<42>>,                    \* "*"
      <<42, 98>> }               \* "*b"

\* the pattern sets: none, one or two patterns
PatternSets == {S \in SUBSET PatternChoices : Cardinality(S) <= 2}

InitInclude ==
    /\ call \in [filename : Names(MaxName), patterns : PatternSets, returned : {FALSE}]
    /\ args = [project_path |-> [abs |-> TRUE, segs |-> << <<112>> >>],
               exclude_patterns |-> DEFAULT_EXCLUDE_PATTERNS,
               dry_run |-> FALSE,
               output_format |-> "txt",
               max_file_size |-> MAX_FILE_SIZE,
               file_filter |-> "all"]
    /\ root_is_dir = TRUE
    /\ fs = {}
    /\ pc = "call"
    /\ content_lines = <<>>
    /\ file_contents = <<>>
    /\ file_count = 0
    /\ total_size = 0
    /\ total_lines = 0
    /\ stack = <<>>
    /\ cur = <<>>
    /\ files = {}
    /\ visited = {}
    /\ log = {}
    /\ runs = <<>>
    /\ result = FALSE
    /\ outside = {}
    /\ denied = {}
    /\ open_btn = "disabled"
    /\ self_output_path = NONE
    /\ gui = "ready"
    /\ invocations = <<>>

\* should_include_file(filename, patterns) is called and returns
CallShouldIncludeFile ==
    /\ pc = "call"
    /\ call' = [call EXCEPT !.returned = should_include_file(call.filename, call.patterns)]
    /\ pc' = "done"
    /\ UNCHANGED <<fs, root_is_dir, args, content_lines, file_contents, file_count, total_size,
                   total_lines, stack, cur, files, visited, log, runs, result, outside, denied,
                   gui_vars>>

NextInclude == CallShouldIncludeFile

SpecInclude == InitInclude /\ [][NextInclude]_vars

(***************************************************************************)
(* gui.py: the window, its Run button and its Open Output Folder button    *)
(***************************************************************************)
\* line 121: the path that makes the handler ask before scanning
ROOT_FILESYSTEM == SEP

\* a button enabled after every successful scan, dry run or not
enables_button_on_success(success, dry_run) == success

\* line 152: success and not dry_run
enables_button(success, dry_run) == success /\ ~dry_run

\* lines 154-162: os.path.join(project_path, "hidden_dump") + the extension
gui_output_path == base_output_path \o Extension(args.output_format)

\* what a click on Run is given: the fields of the window as lines 97-118 read
\* them, and outcome: "cancelled", "running", "success", "failed" or "raised"
Invocation(outcome) ==
    [project_path |-> args.project_path,
     output_format |-> args.output_format,
     dry_run |-> args.dry_run,
     outcome |-> outcome]

\* invocations, with the outcome of the click under way
Ended(outcome) == [invocations EXCEPT ![Len(invocations)].outcome = outcome]

\* the user changes the format box or the dry-run box (lines 41-42, 65-66)
EditForm ==
    /\ gui = "ready"
    /\ Len(invocations) < MaxRuns
    /\ \E output_format \in {"txt", "md", "json", "sqlite"}, dry_run \in BOOLEAN :
          /\ <<output_format, dry_run>> # <<args.output_format, args.dry_run>>
          /\ args' = [args EXCEPT !.output_format = output_format, !.dry_run = dry_run]
    /\ UNCHANGED <<fs, root_is_dir, pc, content_lines, file_contents, file_count, total_size,
                   total_lines, stack, cur, files, visited, log, runs, result, outside, call,
                   denied, gui_vars>>

\* lines 96-146: a click on Run, up to the call of aggregate_hidden_files.
\* response: the answer to the question of line 122, asked for the root "/".
run_hiddenfilereader ==
    /\ gui = "ready"
    /\ pc \in {"idle", "done", "raised"}
    /\ Len(invocations) < MaxRuns
    /\ \E response \in BOOLEAN :
          IF PathStr(args.project_path) = ROOT_FILESYSTEM /\ ~response
          THEN /\ invocations' = Append(invocations, Invocation("cancelled"))
               /\ UNCHANGED <<fs, root_is_dir, pc, content_lines, file_contents, file_count,
                              total_size, total_lines, stack, cur, files, visited, log, runs,
                              result, outside, call, denied, open_btn, self_output_path, gui>>
          ELSE /\ response
               /\ open_btn' = "disabled"
               /\ self_output_path' = NONE
               /\ gui' = "running"
               /\ invocations' = Append(invocations, Invocation("running"))
               /\ aggregate_hidden_files
    /\ UNCHANGED args

\* lines 148-167: aggregate_hidden_files has returned
AfterScan ==
    /\ gui = "running"
    /\ pc = "done"
    /\ IF enables_button(result, args.dry_run)
       THEN /\ self_output_path' = gui_output_path
            /\ open_btn' = "normal"
       ELSE UNCHANGED <<open_btn, self_output_path>>
    /\ gui' = "ready"
    /\ invocations' = Ended(IF result THEN "success" ELSE "failed")
    /\ UNCHANGED <<fs, root_is_dir, args, pc, content_lines, file_contents, file_count,
                   total_size, total_lines, stack, cur, files, visited, log, runs, result,
                   outside, call, denied>>

\* line 138: the exception aggregate_hidden_files raised leaves the handler,
\* which has no try around the call; the window goes on with its event loop
Unwind ==
    /\ gui = "running"
    /\ pc = "raised"
    /\ gui' = "ready"
    /\ invocations' = Ended("raised")
    /\ UNCHANGED <<fs, root_is_dir, args, pc, content_lines, file_contents, file_count,
                   total_size, total_lines, stack, cur, files, visited, log, runs, result,
                   outside, call, denied, open_btn, self_output_path>>

\* the directories the window is pointed at: / and /p
GuiRoots == { [abs |-> TRUE, segs |-> <<>>],
              [abs |-> TRUE, segs |-> << <<112>> >>] }

\* the directory holds nothing, or the file .env
GuiTrees == {S \in Trees : \A f \in S : f.rel = << <<46,101,110,118>> >>}

\* lines 19-89: the window as __init__ builds it, over a directory to scan;
\* the size and exclude fields are left as they are, the filter at "all"
InitGui ==
    /\ args \in [ project_path : GuiRoots,
                  exclude_patterns : ExcludeSets,
                  dry_run : BOOLEAN,
                  output_format : {"txt", "md", "json", "sqlite"},
                  max_file_size : {MAX_FILE_SIZE},
                  file_filter : {"all"} ]
    /\ root_is_dir \in BOOLEAN
    /\ PathStr(args.project_path) = ROOT_FILESYSTEM => root_is_dir
    /\ fs \in (IF root_is_dir THEN GuiTrees ELSE {{}})
    /\ pc = "idle"
    /\ content_lines = <<>>
    /\ file_contents = <<>>
    /\ file_count = 0
    /\ total_size = 0
    /\ total_lines = 0
    /\ stack = <<>>
    /\ cur = <<>>
    /\ files = {}
    /\ visited = {}
    /\ log = {}
    /\ runs = <<>>
    /\ result = FALSE
    /\ outside = {}
    /\ call = NoCall
    /\ denied = {}
    /\ open_btn = "disabled"
    /\ self_output_path = NONE
    /\ gui = "ready"
    /\ invocations = <<>>

NextGui ==
    EditForm \/ run_hiddenfilereader \/ VisitDir \/ ProcessFile \/ Finish \/ AfterScan \/ Unwind

SpecGui == InitGui /\ [][NextGui]_vars

(***************************************************************************)
(* what the claims speak of                                                *)
(***************************************************************************)
\* the file of the tree with relative path rel
FileAt(rel) == CHOOSE f \in fs : f.rel = rel

\* rel has an entry in file_contents
HasEntry(rel) == \E i \in 1..Len(file_contents) : file_contents[i].key = RelStr(rel)

\* content_lines holds a "### <rel>" heading
HasSection(rel) == \E i \in 1..Len(content_lines) : content_lines[i] = SECTION \o RelStr(rel)

\* the scan recorded something for rel, content or error placeholder
Recorded(rel) == HasEntry(rel) \/ HasSection(rel)

\* the scan recorded rel with the content of file f, in the result of the
\* selected format
RecordedWithContent(f) ==
    /\ \E i \in 1..Len(file_contents) :
          file_contents[i] = [key |-> RelStr(f.rel), value |-> ReadText(f.bytes)]
    /\ is_text_format =>
          \E i \in 1..(Len(content_lines) - 4) :
              SubSeq(content_lines, i, i + 4) = content_section(RelStr(f.rel), ReadText(f.bytes))

\* a scan has returned success
Completed == pc = "done" /\ result = TRUE

\* the directories above rel, below the root
AncestorDirs(rel) == {SubSeq(rel, 1, k) : k \in 1..(Len(rel) - 1)}

\* the path has a segment that begins with "."
HasDotSegment(segs) == \E i \in 1..Len(segs) : Len(segs[i]) > 0 /\ segs[i][1] = 46

\* the text has pattern p at some position
HasSubstring(text, p) ==
    \E i \in 1..(Len(text) - Len(p) + 1) : SubSeq(text, i, i + Len(p) - 1) = p

\* the path rel (relative to the root) is matched by an exclude pattern: the
\* full path contains the pattern, or one of its segments equals it
PathMatchesExclude(rel) ==
    \E p \in args.exclude_patterns :
        \/ HasSubstring(PathStr(Full(rel)), p)
        \/ \E i \in 1..Len(Full(rel).segs) : Full(rel).segs[i] = p

\* directory D (relative to the root) is matched by an exclude pattern
DirMatchesExclude(D) == PathMatchesExclude(D)

\* the walk may descend into directory D: its full path has a segment that
\* begins with "." or that, lower-cased, is an include-directory name
DescentAllowed(D) ==
    \/ HasDotSegment(Full(D).segs)
    \/ \E i \in 1..Len(Full(D).segs) : Lower(Full(D).segs[i]) \in include_dirs

(***************************************************************************)
(* C1  Hard exclusion veto: no file beneath a directory that an exclude    *)
(* pattern matches (as a substring of its path, or as one of its segments) *)
(* is ever recorded, neither in file_contents nor as a "###" section,      *)
(* even when the file is hidden or matches an include file pattern.        *)
(***************************************************************************)
C1_ExclusionVeto ==
    \A f \in fs :
        (\E D \in AncestorDirs(f.rel) : DirMatchesExclude(D)) => ~Recorded(f.rel)

\* a scan of a hidden root has completed and recorded a file, and a hidden file
\* beneath an excluded directory of the same tree was left out
C1_Witness ==
    /\ Completed
    /\ is_hidden_file_or_dir(args.project_path)
    /\ Len(file_contents) > 0
    /\ \E f \in fs :
          /\ \E D \in AncestorDirs(f.rel) : DirMatchesExclude(D)
          /\ HasDotSegment(f.rel)
          /\ ~Recorded(f.rel)

(***************************************************************************)
(* C2  Hidden status alone is sufficient: in filter mode "all", every      *)
(* hidden file of the tree (its own name or the name of one of its         *)
(* ancestor directories begins with "."), not matched by an exclude        *)
(* pattern, no larger than the maximum size and not classified binary, is  *)
(* recorded with its content, wherever in the tree it lies.                *)
(***************************************************************************)
\* the files the claim is about, in a normal scan that read them
C2_Candidate(f) ==
    /\ f.fault = "none"
    /\ HasDotSegment(f.rel)
    /\ ~PathMatchesExclude(f.rel)
    /\ Len(f.bytes) <= args.max_file_size
    /\ ~is_binary_file(f)

\* the claim as stated: wherever the file lies
C2_HiddenAlwaysRecorded ==
    (Completed /\ args.file_filter = "all" /\ ~args.dry_run) =>
        \A f \in fs : C2_Candidate(f) => RecordedWithContent(f)

\* the claim as amended: the walk must be able to descend to the file
C2_HiddenReachableRecorded ==
    (Completed /\ args.file_filter = "all" /\ ~args.dry_run) =>
        \A f \in fs :
            (C2_Candidate(f)
             /\ \A D \in AncestorDirs(f.rel) : DescentAllowed(D) /\ D \notin denied)
                => RecordedWithContent(f)

\* a scan of a root that is not hidden recorded a file that is hidden only by
\* the directory it lies in
C2_Witness ==
    /\ Completed /\ args.file_filter = "all" /\ ~args.dry_run
    /\ ~HasDotSegment(args.project_path.segs)
    /\ \E f \in fs :
          /\ C2_Candidate(f)
          /\ Len(f.rel) > 1
          /\ ~HasDotSegment(<<f.rel[Len(f.rel)]>>)
          /\ RecordedWithContent(f)

(***************************************************************************)
(* C3  Tree/Aggregator consistency: in filter mode "all", the files the    *)
(* tree lists are the files the walk reaches and that pass its exclude and *)
(* relevance gates, and the directories the tree descends into are the     *)
(* directories the walk descends into.                                     *)
(***************************************************************************)
\* the walk is over and the output is not yet written: the file system is the
\* one the tree was rendered from
WalkOver == pc = "walk" /\ stack = <<>> /\ files = {}

\* the files the walk reached and that passed the exclude and relevance gates
WalkFiles == {e.rel : e \in {x \in log : x.what \notin {"excluded", "filtered", "irrelevant"}}}

C3_TreeMatchesWalk ==
    (WalkOver /\ args.file_filter = "all") =>
        /\ tree_files = WalkFiles
        /\ tree_dirs(<<>>) = visited

(***************************************************************************)
(* C4  JSON scenario: a scan as the command line runs it (default exclude  *)
(* set, filter "all", default maximum size) with format json, over a root  *)
(* whose only entry is .gitignore with the content "*.log\n", writes a     *)
(* JSON object whose single entry maps ".gitignore" to "*.log\n".          *)
(***************************************************************************)
\* the files of the root other than the artifact the scan wrote
ScannedFiles == {f \in fs : f.rel # <<output_name(args.output_format)>>}

\* the artifact the scan wrote has these bytes
ArtifactIs(bytes) ==
    \E f \in fs : f.rel = <<output_name(args.output_format)>> /\ f.bytes = bytes

\* the scan ran with the defaults of the command line and wrote its artifact
DefaultScanDone(output_format) ==
    /\ Completed
    /\ ~args.dry_run
    /\ args.output_format = output_format
    /\ args.file_filter = "all"
    /\ args.max_file_size = MAX_FILE_SIZE
    /\ args.exclude_patterns = DEFAULT_EXCLUDE_PATTERNS

C4_GitignoreJson ==
    ( /\ DefaultScanDone("json")
      /\ ScannedFiles = {File(<< <<46,103,105,116,105,103,110,111,114,101>> >>,
                              <<42,46,108,111,103,10>>, "none")} )
    =>
    /\ file_contents = << [key |-> <<46,103,105,116,105,103,110,111,114,101>>,
                           value |-> <<42,46,108,111,103,10>>] >>
       \* {"\n  ".gitignore": "*.log\n"\n}, the newline of the content escaped
    /\ ArtifactIs(Utf8Encode(<<123,10,32,32,34,46,103,105,116,105,103,110,111,114,101,34,58,32,
                               34,42,46,108,111,103,92,110,34,10,125>>))

(***************************************************************************)
(* C5  Relevance scenario: for any scan root, with the default             *)
(* configuration and txt output, a root-level file whose name begins with  *)
(* "." gets a "### <relative path>" section holding its content, and a     *)
(* root-level file whose name neither begins with "." nor matches an       *)
(* include file pattern appears nowhere: no section, no tree line, no      *)
(* contribution to the counters.                                           *)
(***************************************************************************)
\* the scan counted the file
Counted(rel) == \E e \in log : e.rel = rel /\ e.what \in {"recorded", "counted"}

C5_RelevanceScenario ==
    DefaultScanDone("txt") =>
        \A f \in ScannedFiles :
            (Len(f.rel) = 1 /\ f.fault = "none" /\ ~is_binary_file(f)) =>
                /\ HasDotSegment(f.rel) => RecordedWithContent(f)
                /\ (~HasDotSegment(f.rel) /\ ~should_include_file(f.rel[1], include_files)) =>
                      /\ ~Recorded(f.rel)
                      /\ f.rel \notin tree_files
                      /\ ~Counted(f.rel)

(***************************************************************************)
(* C6  Filter-mode restriction: after any scan, in filter mode "dotfiles"  *)
(* every recorded entry (content or error placeholder) has a relative path *)
(* with a segment that begins with ".", and in filter mode "config" every  *)
(* recorded entry has a file name matching the config pattern set.         *)
(***************************************************************************)
C6_FilterRestriction ==
    Completed =>
        \A f \in ScannedFiles :
            Recorded(f.rel) =>
                /\ args.file_filter = "dotfiles" => HasDotSegment(f.rel)
                /\ args.file_filter = "config" =>
                      should_include_file(f.rel[Len(f.rel)], config_patterns)

(***************************************************************************)
(* C7  Idempotence of counters: two runs in succession on the same root    *)
(* with the same configuration, the tree touched by nothing but the scan   *)
(* itself, report the same file count, total size and total line count.    *)
(***************************************************************************)
\* the counters a finished scan reported
Counters(run) == <<run.file_count, run.total_size, run.total_lines>>

C7_CountersIdempotent ==
    \A i \in 1..(Len(runs) - 1) : Counters(runs[i]) = Counters(runs[i + 1])

(***************************************************************************)
(* C8  Size gate boundary: a file that passes the exclude, filter-mode and *)
(* relevance gates is skipped by the size gate if and only if its size is  *)
(* strictly greater than the configured maximum M; a file of exactly M     *)
(* bytes proceeds to the binary gate, and a skipped file is neither        *)
(* recorded nor counted.                                                   *)
(***************************************************************************)
\* the step that processes file f, whose size can be taken, after it passed
\* the three gates
C8_Step(f) ==
    LET entry == CHOOSE e \in log' : e.rel = f.rel IN
    (files' = files \ {f} /\ early_gate(f) = "pass" /\ f.fault # "gone") =>
        /\ \E e \in log' : e.rel = f.rel
        /\ (entry.what = "too_large") <=> (Len(f.bytes) > args.max_file_size)
        /\ Len(f.bytes) > args.max_file_size =>
              UNCHANGED <<file_count, total_size, total_lines, file_contents, content_lines>>
        /\ Len(f.bytes) <= args.max_file_size =>
              ((entry.what = "binary") <=> is_binary_file(f))

C8_SizeGateBoundary == [][\A f \in files : C8_Step(f)]_vars

\* one scan let a file of exactly M bytes through and skipped one of M + 1
\* bytes
C8_Witness ==
    \E e1, e2 \in log :
        /\ Len(FileAt(e1.rel).bytes) = args.max_file_size
        /\ e1.what = "recorded"
        /\ RecordedWithContent(FileAt(e1.rel))
        /\ Len(FileAt(e2.rel).bytes) = args.max_file_size + 1
        /\ e2.what = "too_large"
        /\ ~Recorded(e2.rel)

(***************************************************************************)
(* C9  NUL rule of the binary gate: is_binary_file returns true for every  *)
(* readable file whose first 1024 bytes contain at least one NUL byte,     *)
(* whatever the other sampled bytes are.                                   *)
(***************************************************************************)
\* the first 1024 bytes of the file
Sampled(f) == SubSeq(f.bytes, 1, IF Len(f.bytes) < 1024 THEN Len(f.bytes) ELSE 1024)

\* the file was classified, and this is the answer
Classified(f, what) == pc = "done" /\ [rel |-> f.rel, what |-> what] \in log

C9_NulIsBinary ==
    \A f \in fs :
        ( /\ Classified(f, "text") \/ Classified(f, "binary")
          /\ f.fault = "none"
          /\ \E i \in 1..Len(Sampled(f)) : Sampled(f)[i] = 0 )
        => Classified(f, "binary")

(***************************************************************************)
(* C10  Text is never binary: is_binary_file returns false for every       *)
(* readable file shorter than 1024 bytes whose bytes are all printable     *)
(* ASCII (0x20-0x7E, tab, newline, carriage return).                       *)
(***************************************************************************)
PrintableAscii == (32..126) \cup {9, 10, 13}

C10_TextNeverBinary ==
    \A f \in fs :
        ( /\ Classified(f, "text") \/ Classified(f, "binary")
          /\ f.fault = "none"
          /\ Len(f.bytes) < 1024
          /\ \A i \in 1..Len(f.bytes) : f.bytes[i] \in PrintableAscii )
        => Classified(f, "text")

(***************************************************************************)
(* C11  Artifact count: a scan of an existing root that returns normally   *)
(* writes exactly one artifact, hidden_dump with the extension of the      *)
(* selected format, inside the scanned root when dry-run is off, and no    *)
(* file at all when dry-run is on; no run creates or modifies another      *)
(* file.                                                                   *)
(***************************************************************************)
\* the name of the artifact of each format
ArtifactName ==
    <<104, 105, 100, 100, 101, 110, 95, 100, 117, 109, 112>>
    \o (CASE args.output_format = "txt" -> <<46, 116, 120, 116>>
          [] args.output_format = "md" -> <<46, 109, 100>>
          [] args.output_format = "json" -> <<46, 106, 115, 111, 110>>
          [] args.output_format = "sqlite" -> <<46, 100, 98>>)

\* the files of the root that the scan created or modified
Written == fs \ Universe

C11_OneArtifactInRoot ==
    /\ outside = {}
    /\ IF pc = "done" /\ root_is_dir /\ ~args.dry_run
       THEN \E a \in fs : a.rel = <<ArtifactName>> /\ Written = {a}
       ELSE Written = {}

(***************************************************************************)
(* C12  Dry-run equivalence: a dry-run scan and a normal scan of the same  *)
(* unmodified tree make the same per-file gate decisions and end with the  *)
(* same file count, total size and total line count.                       *)
(***************************************************************************)
\* what the gates decided for each file: the file was accepted, or the gate
\* or error that stopped it
GateDecisions(run) ==
    {[rel |-> e.rel,
      what |-> IF e.what \in {"counted", "recorded"} THEN "accepted" ELSE e.what] :
        e \in run.decisions}

C12_DryRunEquivalence ==
    (Len(runs) = 2 /\ runs[1].ok /\ runs[2].ok /\ ~args.dry_run) =>
        /\ GateDecisions(runs[1]) = GateDecisions(runs[2])
        /\ Counters(runs[1]) = Counters(runs[2])

(***************************************************************************)
(* C13  Per-file read errors are local: whenever reading a file that       *)
(* passed the exclude, filter-mode and relevance gates fails (the file     *)
(* disappears, or it cannot be opened), the scan records an error          *)
(* placeholder tied to the file's relative path in the result of the       *)
(* selected format, continues with the other files and returns success.    *)
(***************************************************************************)
\* the result of the selected format holds an error placeholder for rel
HasPlaceholder(rel) ==
    IF is_text_format
    THEN \E i \in 1..(Len(content_lines) - 1) :
            /\ content_lines[i] = SECTION \o RelStr(rel)
            /\ StartsWith(content_lines[i + 1], FENCE \o <<10>> \o ERROR_PREFIX)
    ELSE \E i \in 1..Len(file_contents) :
            /\ file_contents[i].key = RelStr(rel)
            /\ StartsWith(file_contents[i].value, ERROR_PREFIX)

\* the walk reached the file, it passed the three gates, and reading it failed
ReadFailed(f) ==
    /\ \E e \in log : e.rel = f.rel
    /\ early_gate(f) = "pass"
    /\ \/ f.fault \in {"gone", "late"}
       \/ f.fault = "perm" /\ Len(f.bytes) <= args.max_file_size

\* the walk reached the file and nothing stands in the way of recording it
ReadSucceeds(f) ==
    /\ \E e \in log : e.rel = f.rel
    /\ early_gate(f) = "pass"
    /\ f.fault = "none"
    /\ Len(f.bytes) <= args.max_file_size
    /\ ~is_binary_file(f)

C13_ReadErrorsLocal ==
    \* the walk is never cut short by a file: it ends, and with success
    /\ (pc = "done" /\ root_is_dir) => result = TRUE
    /\ (Completed /\ ~args.dry_run) =>
          \A f \in ScannedFiles :
              /\ ReadFailed(f) => HasPlaceholder(f.rel)
              /\ ReadSucceeds(f) => RecordedWithContent(f)

(***************************************************************************)
(* C14  Configuration error: when the root path does not exist or is not a *)
(* directory, aggregate_hidden_files returns False without raising,        *)
(* renders no tree, walks nothing, reads no file and writes no artifact.   *)
(***************************************************************************)
C14_ConfigurationError ==
    ~root_is_dir =>
        /\ pc \in {"idle", "done"}
        /\ pc = "done" => (result = FALSE /\ Len(runs) = 1 /\ ~runs[1].ok)
        /\ content_lines = <<>>
        /\ file_contents = <<>>
        /\ visited = {} /\ stack = <<>> /\ files = {} /\ log = {}
        /\ file_count = 0 /\ total_size = 0 /\ total_lines = 0
        /\ Written = {} /\ outside = {}

\* the scan of a path that is not a directory has returned
C14_Witness ==
    /\ ~root_is_dir
    /\ pc = "done"
    /\ result = FALSE
    /\ Len(runs) = 1 /\ ~runs[1].ok

(***************************************************************************)
(* C15  Output-write error: when persisting the artifact fails after the   *)
(* walk completed, aggregate_hidden_files reports the error and returns    *)
(* False to its caller; the failure is an outcome of the run, not an       *)
(* unhandled exception.                                                    *)
(***************************************************************************)
\* a run that has left the walk has returned, and a run that wrote no
\* artifact although it had one to write has returned False
C15_WriteErrorReturnsFalse ==
    /\ pc # "raised"
    /\ (pc = "done" /\ root_is_dir /\ ~args.dry_run /\ Written = {} /\ outside = {})
          => result = FALSE

(***************************************************************************)
(* C16  should_include_file agrees with the three-rule reference for every *)
(* file name and pattern set: it returns true if and only if some pattern  *)
(* p satisfies, case-insensitively, (a) the name equals p, or (b) p begins *)
(* with "*." and the name ends with the text of p after the "*", or (c) p  *)
(* ends with "/" and the name starts with p without the trailing slash.    *)
(* "*" has no other wildcard meaning.                                      *)
(***************************************************************************)
RuleExact(name, p) == Lower(name) = Lower(p)

RuleSuffix(name, p) ==
    /\ Len(p) >= 2 /\ p[1] = 42 /\ p[2] = 46
    /\ Len(name) >= Len(p) - 1
    /\ SubSeq(Lower(name), Len(name) - Len(p) + 2, Len(name)) = SubSeq(Lower(p), 2, Len(p))

RulePrefix(name, p) ==
    /\ Len(p) >= 1 /\ p[Len(p)] = 47
    /\ Len(name) >= Len(p) - 1
    /\ SubSeq(Lower(name), 1, Len(p) - 1) = SubSeq(Lower(p), 1, Len(p) - 1)

C16_ThreeRules ==
    pc = "done" =>
        (call.returned <=>
            \E p \in call.patterns :
                RuleExact(call.filename, p) \/ RuleSuffix(call.filename, p)
                    \/ RulePrefix(call.filename, p))

\* a call returned true for a name that only the suffix rule matches, and
\* only when case is ignored
C16_Witness ==
    /\ pc = "done"
    /\ call.returned
    /\ call.patterns # {}
    /\ \A p \in call.patterns :
          /\ ~RuleExact(call.filename, p)
          /\ ~RulePrefix(call.filename, p)
          /\ RuleSuffix(call.filename, p) => Lower(call.filename) # call.filename

(***************************************************************************)
(* C17  Tree line order and connectors: the first line of the tree is the  *)
(* root's base name followed by "/"; at every rendered level the kept      *)
(* directories come before the kept files, each group in ascending         *)
(* case-sensitive order; every line of a level but the last uses the       *)
(* branch connector and the last line of the level the terminal one; the   *)
(* lines of the subtree of a level's last entry are prefixed with four     *)
(* spaces instead of the vertical bar.                                     *)
(***************************************************************************)
\* the lines of a text
SplitLines(text) ==
    LET ends == {i \in 1..Len(text) : text[i] = 10} \cup {Len(text) + 1}
        starts == {1} \cup {i + 1 : i \in {j \in 1..Len(text) : text[j] = 10}}
        order == Sorted({<<i>> : i \in starts})
    IN  [k \in 1..Cardinality(starts) |->
            LET from == order[k][1]
                to == CHOOSE e \in ends : e >= from /\ \A x \in ends : x >= from => e <= x
            IN  SubSeq(text, from, to - 1)]

\* the tree the scan rendered into its header, line by line
RenderedTree == SplitLines(content_lines[8])

\* the four characters of a line at indentation k
Unit(line, k) == SubSeq(line, 4 * k + 1, 4 * k + 4)

\* the depth of an entry line: the indentation at which its connector stands
Depth(line) ==
    CHOOSE k \in 0..(Len(line) \div 4) :
        /\ Unit(line, k) \in {BRANCH, LAST_BRANCH}
        /\ \A j \in 0..(k - 1) : Unit(line, j) \notin {BRANCH, LAST_BRANCH}

Connector(line) == Unit(line, Depth(line))

EntryName(line) == SubSeq(line, 4 * Depth(line) + 5, Len(line))

IsDirLine(line) == Len(EntryName(line)) > 0 /\ EntryName(line)[Len(EntryName(line))] = 47

\* the name the entries are sorted by
SortName(line) ==
    IF IsDirLine(line) THEN SubSeq(EntryName(line), 1, Len(EntryName(line)) - 1)
    ELSE EntryName(line)

\* line j lies in the subtree of line i
InSubtree(t, i, j) ==
    i < j /\ \A k \in (i + 1)..j : Depth(t[k]) > Depth(t[i])

\* line j is an entry of the level of line i, later in it
LaterSibling(t, i, j) ==
    /\ i < j
    /\ Depth(t[j]) = Depth(t[i])
    /\ \A k \in (i + 1)..j : Depth(t[k]) >= Depth(t[i])

C17_TreeShape ==
    (pc = "walk" /\ visited = {}) =>
        LET t == RenderedTree
            last(i) == ~\E j \in 2..Len(t) : LaterSibling(t, i, j)
        IN  /\ t[1] = args.project_path.segs[Len(args.project_path.segs)] \o SEP
            /\ \A i \in 2..Len(t) :
                  /\ Connector(t[i]) = IF last(i) THEN LAST_BRANCH ELSE BRANCH
                  /\ \A j \in 2..Len(t) :
                        /\ LaterSibling(t, i, j) =>
                              /\ IsDirLine(t[j]) => IsDirLine(t[i])
                              /\ (IsDirLine(t[i]) <=> IsDirLine(t[j]))
                                    => StrLess(SortName(t[i]), SortName(t[j]))
                        /\ InSubtree(t, i, j) =>
                              Unit(t[j], Depth(t[i])) =
                                  IF last(i) THEN BLANK_PREFIX ELSE BAR_PREFIX

(***************************************************************************)
(* C18  Gate order and short-circuit: for every file the walk visits the   *)
(* gates are evaluated in the order exclude, filter mode, relevance, size, *)
(* binary, and evaluation stops at the first gate that rejects: a "too     *)
(* large" or "binary" report is emitted only for a file that passed the    *)
(* first three gates, the binary sampling happens only for a file within   *)
(* the size limit, and content is read only for a file that passed all     *)
(* five gates.                                                             *)
(***************************************************************************)
\* the gates, each on its own
ExcludeRejects(f) == PathMatchesExclude(f.rel)

FilterRejects(f) ==
    \/ args.file_filter = "dotfiles" /\ ~HasDotSegment(Full(f.rel).segs)
    \/ args.file_filter = "config" /\ ~should_include_file(f.rel[Len(f.rel)], config_patterns)

RelevanceRejects(f) ==
    /\ ~should_include_file(f.rel[Len(f.rel)], include_files)
    /\ ~HasDotSegment(Full(f.rel).segs)

SizeRejects(f) == Len(f.bytes) > args.max_file_size

BinaryRejects(f) == is_binary_file(f)

\* what the loop does with the file when the gates are tried in order and the
\* first that rejects ends the iteration (a file already gone fails at the
\* size gate, one gone after the sampling fails at the read)
FirstVerdict(f) ==
    IF ExcludeRejects(f) THEN "excluded"
    ELSE IF FilterRejects(f) THEN "filtered"
    ELSE IF RelevanceRejects(f) THEN "irrelevant"
    ELSE IF f.fault = "gone" THEN "error"
    ELSE IF SizeRejects(f) THEN "too_large"
    ELSE IF BinaryRejects(f) THEN "binary"
    ELSE IF f.fault = "late" THEN "error"
    ELSE IF args.dry_run THEN "counted"
    ELSE "recorded"

C18_GateOrder ==
    /\ \A e \in log : e.what = FirstVerdict(FileAt(e.rel))
    /\ \A f \in ScannedFiles :
          (HasEntry(f.rel) /\ ~HasPlaceholder(f.rel)) =>
              ~(ExcludeRejects(f) \/ FilterRejects(f) \/ RelevanceRejects(f)
                    \/ SizeRejects(f) \/ BinaryRejects(f))

\* the walk met a file that both the exclude gate and the size gate reject and
\* reported it as excluded, and a file that both the size gate and the binary
\* gate reject and reported it as too large
C18_Witness ==
    /\ \E e \in log :
          /\ e.what = "excluded"
          /\ SizeRejects(FileAt(e.rel))
    /\ \E e \in log :
          /\ e.what = "too_large"
          /\ BinaryRejects(FileAt(e.rel))

(***************************************************************************)
(* C19  Bounded descent: the walk descends into a subdirectory only if it  *)
(* is not matched by should_exclude_path and satisfies should_include_path *)
(* or is_hidden_file_or_dir on its full path; the files directly in the    *)
(* scan root are always examined, and no file inside a subdirectory that   *)
(* fails either test is ever examined, read or recorded.                   *)
(***************************************************************************)
\* the two tests of directory D, on its full path
MayDescend(D) == ~PathMatchesExclude(D) /\ DescentAllowed(D)

\* every directory from the root down to d, d included, passes both tests
OpenPath(d) == \A k \in 1..Len(d) : MayDescend(SubSeq(d, 1, k))

\* the walk examined the file: the loop body ran for it
Examined(rel) == \E e \in log : e.rel = rel

C19_BoundedDescent ==
    /\ \A d \in visited : OpenPath(d)
    /\ (pc = "walk" /\ stack # <<>>) => \A d \in Head(stack) : OpenPath(d)
    /\ \A f \in fs :
          (Examined(f.rel) \/ f \in files \/ Recorded(f.rel))
              => OpenPath(SubSeq(f.rel, 1, Len(f.rel) - 1))
    /\ WalkOver => \A f \in fs : Len(f.rel) = 1 => Examined(f.rel)

\* the walk is over: it went into one subdirectory and examined its file, and
\* left alone another, which holds a hidden file
C19_Witness ==
    /\ WalkOver
    /\ \E f \in fs : Len(f.rel) > 1 /\ Examined(f.rel)
    /\ \E f \in fs :
          /\ Len(f.rel) > 1
          /\ HasDotSegment(<<f.rel[Len(f.rel)]>>)
          /\ ~MayDescend(<<f.rel[1]>>)
          /\ ~Examined(f.rel)

(***************************************************************************)
(* C20  Printable-ratio rule of the binary gate: for every non-empty       *)
(* sample of at most 1024 bytes without a NUL byte, is_binary_file returns *)
(* true if and only if fewer than 70% of the sampled bytes belong to the   *)
(* printable set of exactly tab, newline, form feed, carriage return,      *)
(* escape and the bytes 0x20-0xFF except 0x7F; an empty file is not        *)
(* binary.                                                                 *)
(***************************************************************************)
PrintableSet == {9, 10, 12, 13, 27} \cup ((32..255) \ {127})

PrintableIn(sample) == Cardinality({i \in 1..Len(sample) : sample[i] \in PrintableSet})

C20_PrintableRatio ==
    \A f \in fs :
        ( /\ Classified(f, "text") \/ Classified(f, "binary")
          /\ f.fault = "none"
          /\ \A i \in 1..Len(Sampled(f)) : Sampled(f)[i] # 0 )
        => IF Len(Sampled(f)) = 0 THEN Classified(f, "text")
           ELSE Classified(f, "binary")
                    <=> (10 * PrintableIn(Sampled(f)) < 7 * Len(Sampled(f)))

(***************************************************************************)
(* C21  Line counter of a normal scan: after a non-dry-run scan, the       *)
(* reported total line count equals the sum, over all files whose content  *)
(* was recorded, of (number of newline characters in the file's content    *)
(* + 1), and the reported total size equals the sum of the byte sizes of   *)
(* those files.                                                            *)
(***************************************************************************)
\* the files whose content the scan recorded
RecordedFiles == {f \in ScannedFiles : [rel |-> f.rel, what |-> "recorded"] \in log}

\* the newline characters of the content of f, plus one
LinesOf(f) == Count(ReadText(f.bytes), <<10>>) + 1

RECURSIVE SumLines(_)
SumLines(S) ==
    IF S = {} THEN 0
    ELSE LET f == CHOOSE x \in S : TRUE IN LinesOf(f) + SumLines(S \ {f})

RECURSIVE SumBytes(_)
SumBytes(S) ==
    IF S = {} THEN 0
    ELSE LET f == CHOOSE x \in S : TRUE IN Len(f.bytes) + SumBytes(S \ {f})

C21_LineAndSizeCounters ==
    (Completed /\ ~args.dry_run) =>
        /\ total_lines = SumLines(RecordedFiles)
        /\ total_size = SumBytes(RecordedFiles)

(***************************************************************************)
(* C22  File-count consistency: at the end of every scan, normal or        *)
(* dry-run, file_count equals the number of files that passed all five     *)
(* gates and were read without error; a file that ends in the error path   *)
(* contributes to none of the three counters; in a normal txt/md scan      *)
(* file_count equals the number of non-error "### <path>" sections, and in *)
(* a normal json/sqlite scan the number of file_contents entries that are  *)
(* not error placeholders.                                                 *)
(***************************************************************************)
\* the files the walk reached that passed the five gates and were read
ReadWithoutError ==
    {f \in ScannedFiles :
        /\ \E e \in log : e.rel = f.rel
        /\ ~(ExcludeRejects(f) \/ FilterRejects(f) \/ RelevanceRejects(f))
        /\ f.fault = "none"
        /\ ~(SizeRejects(f) \/ BinaryRejects(f))}

\* what a file that was read adds to the size and the line counter
SizeAdded(f) == IF args.dry_run THEN Len(f.bytes) ELSE Len(ReadText(f.bytes))

LinesAdded(f) ==
    IF args.dry_run THEN LineCount(ReadText(f.bytes))
    ELSE Count(ReadText(f.bytes), <<92, 110>>) + 1

RECURSIVE SumSizeAdded(_)
SumSizeAdded(S) ==
    IF S = {} THEN 0
    ELSE LET f == CHOOSE x \in S : TRUE IN SizeAdded(f) + SumSizeAdded(S \ {f})

RECURSIVE SumLinesAdded(_)
SumLinesAdded(S) ==
    IF S = {} THEN 0
    ELSE LET f == CHOOSE x \in S : TRUE IN LinesAdded(f) + SumLinesAdded(S \ {f})

\* the "### <path>" sections of content_lines that are not error placeholders
ContentSections ==
    {i \in 1..Len(content_lines) :
        /\ StartsWith(content_lines[i], SECTION)
        /\ ~(/\ i < Len(content_lines)
             /\ StartsWith(content_lines[i + 1], FENCE \o <<10>> \o ERROR_PREFIX))}

\* the entries of file_contents that are not error placeholders
ContentEntries ==
    {i \in 1..Len(file_contents) : ~StartsWith(file_contents[i].value, ERROR_PREFIX)}

C22_FileCountConsistency ==
    Completed =>
        /\ file_count = Cardinality(ReadWithoutError)
        /\ total_size = SumSizeAdded(ReadWithoutError)
        /\ total_lines = SumLinesAdded(ReadWithoutError)
        /\ (~args.dry_run /\ is_text_format) => file_count = Cardinality(ContentSections)
        /\ (~args.dry_run /\ ~is_text_format) => file_count = Cardinality(ContentEntries)

(***************************************************************************)
(* C23  GUI open-button state: after any sequence of run_hiddenfilereader  *)
(* invocations, the "Open Output Folder" button is enabled if and only if  *)
(* the most recent invocation that got past the root-confirmation prompt   *)
(* returned success and was not a dry run, and in that case output_path    *)
(* equals <root>/hidden_dump with the extension of that run's format;      *)
(* every such invocation first disables the button and clears output_path, *)
(* and a failed, dry-run or exception-terminated run leaves the button     *)
(* disabled with output_path unset.                                        *)
(***************************************************************************)
\* the invocations that got past the prompt
PastPrompt == {i \in 1..Len(invocations) : invocations[i].outcome # "cancelled"}

\* the most recent of them
MostRecent == invocations[CHOOSE i \in PastPrompt : \A j \in PastPrompt : j <= i]

\* <root>/hidden_dump with the extension of the format of an invocation
HiddenDumpOf(inv) ==
    PathStr(PathJoin(inv.project_path,
        <<104, 105, 100, 100, 101, 110, 95, 100, 117, 109, 112>>
        \o (CASE inv.output_format = "txt" -> <<46, 116, 120, 116>>
              [] inv.output_format = "md" -> <<46, 109, 100>>
              [] inv.output_format = "json" -> <<46, 106, 115, 111, 110>>
              [] inv.output_format = "sqlite" -> <<46, 100, 98>>)))

C23_OpenButtonState ==
    /\ gui = "running" => (open_btn = "disabled" /\ self_output_path = NONE)
    /\ gui = "ready" =>
          IF PastPrompt = {}
          THEN open_btn = "disabled" /\ self_output_path = NONE
          ELSE /\ open_btn = "normal"
                    <=> (MostRecent.outcome = "success" /\ ~MostRecent.dry_run)
               /\ open_btn = "normal" => self_output_path = HiddenDumpOf(MostRecent)
               /\ open_btn = "disabled" => self_output_path = NONE

\* a scan enabled the button, and the next run, a dry run of another format,
\* left it disabled
C23_Witness ==
    /\ gui = "ready"
    /\ Len(invocations) = 2
    /\ invocations[1].outcome = "success" /\ ~invocations[1].dry_run
    /\ invocations[2].outcome = "success" /\ invocations[2].dry_run
    /\ invocations[2].output_format # invocations[1].output_format
    /\ open_btn = "disabled"

=============================================================================
